---- MODULE Spec2Model ----
(***************************************************************************)
(* CkanGroupViewModel: discovery of a CKAN catalogue.                      *)
(*   _load                             issues one package_search fetch per *)
(*                                     filter query and joins them;        *)
(*   filterResultsByGetCapabilities    groups WMS resources per server and *)
(*                                     fetches GetCapabilities per server; *)
(*   filterBasedOnGetCapabilitiesResponse walks the capability layers;     *)
(*   populateGroupFromResults          builds the group/item tree.         *)
(* Strings that the code lower-cases or orders (titles, group names,       *)
(* formats) are sequences of one-character strings; strings that are only  *)
(* compared for equality (URLs, layer names) are TLA+ strings.             *)
(***************************************************************************)
EXTENDS Integers, Sequences, FiniteSets, TLC

\* ------------------------------------------------------------------ bounds
\* The largest number of filter queries of a configuration.
MaxQueries == 2
\* The largest number of times _load is run against the same root.
MaxRuns == 2
\* The largest number of TableStructure.fromJson calls on the same structure.
MaxLoads == 2

\* ------------------------------------------------------------- JS values
\* The JavaScript value undefined, where the code keeps a string or nothing.
Undef == "undefined"
\* An optional value that is not a string: <<>> is undefined, <<v>> is v.
None == <<>>
Some(v) == <<v>>
defined(opt) == opt # None

\* ---------------------------------------------------------------- strings
UpperChars == <<"A", "B", "C", "E", "G", "M", "R", "S", "T", "W">>
LowerChars == <<"a", "b", "c", "e", "g", "m", "r", "s", "t", "w">>
\* The characters of the model in UTF-16 code-unit order.
CharOrder == <<" ", "1", "2", "A", "B", "C", "E", "G", "M", "R", "S", "T", "W",
               "a", "b", "c", "e", "g", "i", "l", "m", "p", "r", "s", "t", "v", "w">>

\* The place of each character in CharOrder.
CharCodes ==
    [c \in {CharOrder[k] : k \in 1..Len(CharOrder)} |->
        CHOOSE k \in 1..Len(CharOrder) : CharOrder[k] = c]

CharCode(c) == CharCodes[c]

\* The lower-case character of each upper-case character.
LowerCaseOf ==
    [c \in {UpperChars[k] : k \in 1..Len(UpperChars)} |->
        LowerChars[CHOOSE k \in 1..Len(UpperChars) : UpperChars[k] = c]]

toLowerCaseChar(c) == IF c \in DOMAIN LowerCaseOf THEN LowerCaseOf[c] ELSE c

toLowerCase(s) == [k \in 1..Len(s) |-> toLowerCaseChar(s[k])]

\* a < b for JavaScript strings: code-unit lexicographic order.
RECURSIVE StrLess(_, _)
StrLess(a, b) ==
    IF b = <<>> THEN FALSE
    ELSE IF a = <<>> THEN TRUE
    ELSE IF CharCode(Head(a)) < CharCode(Head(b)) THEN TRUE
    ELSE IF CharCode(Head(a)) > CharCode(Head(b)) THEN FALSE
    ELSE StrLess(Tail(a), Tail(b))

\* format.match(/^wms$/i) and format.match(/^esri rest$/i)
\* The same test without the i flag.
wmsFormatCaseSensitive(format) == format = <<"w", "m", "s">>

wmsFormatRegex(format) == toLowerCase(format) = <<"w", "m", "s">>
esriRestFormatRegex(format) ==
    toLowerCase(format) = <<"e", "s", "r", "i", " ", "r", "e", "s", "t">>

\* bboxString.split(','): the parts of a string of characters.
RECURSIVE split(_)
split(s) ==
    IF \A k \in 1..Len(s) : s[k] # ","
    THEN <<s>>
    ELSE LET c == CHOOSE k \in 1..Len(s) :
                      s[k] = "," /\ \A j \in 1..(k - 1) : s[j] # ","
         IN <<SubSeq(s, 1, c - 1)>> \o split(SubSeq(s, c + 1, Len(s)))

\* -------------------------------------------------------------------- URI
\* A URL is [base, query]: the part before '?' and the list of <<key, value>>
\* pairs after it.  new URI(u).search(true) is the map of its parameters.
SearchParam(uri, key) ==
    IF \E k \in 1..Len(uri.query) : uri.query[k][1] = key
    THEN uri.query[CHOOSE k \in 1..Len(uri.query) : uri.query[k][1] = key][2]
    ELSE Undef

\* uri.search(''); uri.toString()
StripSearch(uri) == uri.base

\* resource.wms_url, else resource.url, else nothing (None)
ResourceUrl(resource) ==
    IF defined(resource.wms_url) THEN resource.wms_url ELSE resource.url

\* a || b on strings: a unless it is falsy (undefined or empty).
Truthy(s) == s # Undef /\ s # ""
OrElse(a, b) == IF Truthy(a) THEN a ELSE b

\* ------------------------------------------------- capability coordinator
\* wmsServers[url][layerName] = resource, where a resource is named by its
\* place <<itemIndex, resourceIndex>> in json.result.results.
PutResource(wmsServers, url, layerName, ref) ==
    LET inner == IF url \in DOMAIN wmsServers THEN wmsServers[url] ELSE <<>>
        newInner == [n \in DOMAIN inner \cup {layerName} |->
                        IF n = layerName THEN ref ELSE inner[n]]
    IN [u \in DOMAIN wmsServers \cup {url} |->
            IF u = url THEN newInner ELSE wmsServers[u]]

\* A grouping that does not look at the format of the resource.
GroupResourceOfAnyFormat(wmsServers, items, itemIndex, resourceIndex) ==
    LET wmsUrl == ResourceUrl(items[itemIndex].resources[resourceIndex])
    IN IF ~defined(wmsUrl) THEN wmsServers
       ELSE PutResource(wmsServers, StripSearch(wmsUrl[1]),
                        SearchParam(wmsUrl[1], "LAYERS"),
                        <<itemIndex, resourceIndex>>)

\* The body of the two loops of filterResultsByGetCapabilities for one resource.
GroupResource(wmsServers, items, itemIndex, resourceIndex) ==
    LET resource == items[itemIndex].resources[resourceIndex]
        wmsUrl == ResourceUrl(resource)
    IN IF ~wmsFormatRegex(resource.format) THEN wmsServers
       ELSE IF ~defined(wmsUrl) THEN wmsServers
       ELSE PutResource(wmsServers, StripSearch(wmsUrl[1]),
                        SearchParam(wmsUrl[1], "LAYERS"),
                        <<itemIndex, resourceIndex>>)

RECURSIVE GroupResources(_, _, _, _)
GroupResources(wmsServers, items, itemIndex, resourceIndex) ==
    IF itemIndex > Len(items) THEN wmsServers
    ELSE IF resourceIndex > Len(items[itemIndex].resources)
    THEN GroupResources(wmsServers, items, itemIndex + 1, 1)
    ELSE GroupResources(GroupResource(wmsServers, items, itemIndex, resourceIndex),
                        items, itemIndex, resourceIndex + 1)

\* The wmsServers map filterResultsByGetCapabilities builds from the records.
WmsServersOf(items) == GroupResources(<<>>, items, 1, 1)

\* The resources a server's map holds.
ResourcesOf(resources) == {resources[n] : n \in DOMAIN resources}

\* resource.__filtered = value for the resources named by refs.
SetFiltered(items, refs, value) ==
    [i \in DOMAIN items |->
        [items[i] EXCEPT !.resources =
            [j \in DOMAIN @ |->
                IF <<i, j>> \in refs THEN [@[j] EXCEPT !.filtered = value] ELSE @[j]]]]

\* The scale test of filterBasedOnGetCapabilitiesResponse.
ScaleAllows(minimumMaxScaleDenominator, layerSource) ==
    \/ ~defined(minimumMaxScaleDenominator)
    \/ ~defined(layerSource.MaxScaleDenominator)
    \/ layerSource.MaxScaleDenominator[1] >= minimumMaxScaleDenominator[1]

\* A capability layer source is [kind |-> "array", nodes |-> <<...>>] or
\* [kind |-> "object", node |-> n]; the latter is wrapped into a list.
AsArray(wmsLayersSource) ==
    IF wmsLayersSource.kind = "array" THEN wmsLayersSource.nodes
    ELSE <<wmsLayersSource.node>>

\* A walk of the top-level nodes only, without the recursion of lines 320-322.
filterTopLevelOnly(viewModel, wmsLayersSource, resources) ==
    LET nodes == AsArray(wmsLayersSource)
    IN UNION {IF /\ Truthy(nodes[i].Name)
                 /\ nodes[i].Name \in DOMAIN resources
                 /\ ScaleAllows(viewModel.minimumMaxScaleDenominator, nodes[i])
              THEN {resources[nodes[i].Name]} ELSE {} : i \in 1..Len(nodes)}

\* A walk that sets __filtered back to true at a node that carries the name of
\* a resource and fails the scale test: the resources left cleared after the
\* nodes from i on, cleared being those cleared so far.
RECURSIVE WalkResetting(_, _, _, _, _)
WalkResetting(viewModel, nodes, i, resources, cleared) ==
    IF i > Len(nodes) THEN cleared
    ELSE LET layerSource == nodes[i]
             own == IF Truthy(layerSource.Name) /\ layerSource.Name \in DOMAIN resources
                    THEN IF ScaleAllows(viewModel.minimumMaxScaleDenominator, layerSource)
                         THEN cleared \cup {resources[layerSource.Name]}
                         ELSE cleared \ {resources[layerSource.Name]}
                    ELSE cleared
             below == IF defined(layerSource.Layer)
                      THEN WalkResetting(viewModel, AsArray(layerSource.Layer[1]), 1,
                                         resources, own)
                      ELSE own
         IN WalkResetting(viewModel, nodes, i + 1, resources, below)

filterResettingFlags(viewModel, wmsLayersSource, resources) ==
    WalkResetting(viewModel, AsArray(wmsLayersSource), 1, resources, {})

\* filterBasedOnGetCapabilitiesResponse: the resources whose __filtered it
\* sets to false (it never assigns any other value).
RECURSIVE filterBasedOnGetCapabilitiesResponse(_, _, _)
filterBasedOnGetCapabilitiesResponse(viewModel, wmsLayersSource, resources) ==
    LET nodes == AsArray(wmsLayersSource)
        Own(layerSource) ==
            IF /\ Truthy(layerSource.Name)
               /\ layerSource.Name \in DOMAIN resources
               /\ ScaleAllows(viewModel.minimumMaxScaleDenominator, layerSource)
            THEN {resources[layerSource.Name]} ELSE {}
        Below(layerSource) ==
            IF defined(layerSource.Layer)
            THEN filterBasedOnGetCapabilitiesResponse(viewModel, layerSource.Layer[1],
                                                      resources)
            ELSE {}
    IN UNION {Own(nodes[i]) \cup Below(nodes[i]) : i \in 1..Len(nodes)}

\* ------------------------------------------------------------ tree builder
\* CatalogGroupViewModel.findFirstItemByName: the index of the first child
\* with that name, 0 when there is none.
findFirstItemByName(items, name) ==
    IF \E k \in 1..Len(items) : items[k].name = name
    THEN CHOOSE k \in 1..Len(items) :
             items[k].name = name /\ \A j \in 1..(k - 1) : items[j].name # name
    ELSE 0

\* CatalogGroupViewModel.add: append a child.
add(items, child) == Append(items, child)

\* new CatalogGroupViewModel(application) with its name set.
NewGroup(name) == [type |-> "group", name |-> name, items |-> <<>>]

\* A blacklist test that never matches.
NothingBlacklisted(viewModel, name) == FALSE

\* viewModel.blacklist && viewModel.blacklist[name]
Blacklisted(viewModel, name) == name \in viewModel.blacklist

\* var bboxString = item.geo_coverage || extras.geo_coverage, where extras is
\* built from item.extras, a later key overwriting an earlier one.
ExtrasValue(item, key) ==
    IF \E k \in 1..Len(item.extras) : item.extras[k].key = key
    THEN item.extras[CHOOSE k \in 1..Len(item.extras) :
            /\ item.extras[k].key = key
            /\ \A j \in (k + 1)..Len(item.extras) : item.extras[j].key # key].value
    ELSE None

BboxString(item) ==
    IF defined(item.geo_coverage) /\ item.geo_coverage[1] # <<>>
    THEN item.geo_coverage
    ELSE ExtrasValue(item, "geo_coverage")

\* Rectangle.fromDegrees(parts[0], parts[1], parts[2], parts[3])
RectangleFromDegrees(parts) ==
    Some([west |-> parts[1], south |-> parts[2], east |-> parts[3], north |-> parts[4]])

\* Lines 356-363.  `var rectangle` is function-scoped: the declaration inside
\* the loop body does not reset it, so `rectangle` is what the previous
\* iteration left unless this record assigns it.
RectangleAfter(rectangle, item) ==
    LET bboxString == BboxString(item)
    IN IF defined(bboxString) /\ Len(split(bboxString[1])) = 4
       THEN RectangleFromDegrees(split(bboxString[1]))
       ELSE rectangle

\* Lines 406-410.
DataCustodianOf(viewModel, item) ==
    IF viewModel.dataCustodian # Undef THEN viewModel.dataCustodian
    ELSE IF defined(item.organization) /\ Truthy(item.organization[1].title)
    THEN OrElse(item.organization[1].description, item.organization[1].title)
    ELSE Undef

\* The condition of the `continue` of lines 369-379.
SkipsResource(resource) ==
    \/ resource.filtered = "true"
    \/ ~wmsFormatRegex(resource.format) /\ ~esriRestFormatRegex(resource.format)
    \/ ~defined(ResourceUrl(resource))

\* Lines 381-410: the item built for a resource.  oid is the identity of the
\* object: the run that made it and the resource it was made for.
NewItem(viewModel, item, itemIndex, resourceIndex, rectangle) ==
    LET resource == item.resources[resourceIndex]
        uri == ResourceUrl(resource)[1]
    IN [oid |-> <<viewModel.epoch, itemIndex, resourceIndex>>,
        type |-> IF esriRestFormatRegex(resource.format) THEN "esri-mapServer" ELSE "wms",
        name |-> item.title,
        url |-> StripSearch(uri),
        layers |-> OrElse(SearchParam(uri, "LAYERS"), SearchParam(uri, "layers")),
        rectangle |-> rectangle,
        dataCustodian |-> DataCustodianOf(viewModel, item)]

\* A lookup that takes names differing in case only for the same name.
ExistingGroupIgnoringCase(rootItems, group) ==
    IF \E k \in 1..Len(rootItems) :
           toLowerCase(rootItems[k].name) = toLowerCase(group.display_name)
    THEN CHOOSE k \in 1..Len(rootItems) :
             /\ toLowerCase(rootItems[k].name) = toLowerCase(group.display_name)
             /\ \A j \in 1..(k - 1) :
                    toLowerCase(rootItems[j].name) # toLowerCase(group.display_name)
    ELSE 0

\* Line 420: var existingGroup = viewModel.findFirstItemByName(group.display_name);
\* 0 stands for undefined.
ExistingGroupOf(rootItems, group) == findFirstItemByName(rootItems, group.display_name)

\* A loop that looks the group up, and creates it, before the blacklist test.
RECURSIVE AddToGroupsCreatingFirst(_, _, _, _, _)
AddToGroupsCreatingFirst(viewModel, rootItems, groups, groupIndex, newItem) ==
    IF groupIndex > Len(groups) THEN rootItems
    ELSE LET group == groups[groupIndex]
             found == findFirstItemByName(rootItems, group.display_name)
             withGroup == IF found = 0
                          THEN add(rootItems, NewGroup(group.display_name))
                          ELSE rootItems
             at == IF found = 0 THEN Len(withGroup) ELSE found
         IN IF group.display_name \in viewModel.blacklist
            THEN AddToGroupsCreatingFirst(viewModel, withGroup, groups, groupIndex + 1,
                                          newItem)
            ELSE AddToGroupsCreatingFirst(viewModel,
                                          [withGroup EXCEPT ![at].items = add(@, newItem)],
                                          groups, groupIndex + 1, newItem)

\* Lines 412-428: the loop over item.groups for one new item.
RECURSIVE AddToGroups(_, _, _, _, _)
AddToGroups(viewModel, rootItems, groups, groupIndex, newItem) ==
    IF groupIndex > Len(groups) THEN rootItems
    ELSE LET group == groups[groupIndex]
             found == ExistingGroupOf(rootItems, group)
             withGroup == IF found = 0
                          THEN add(rootItems, NewGroup(group.display_name))
                          ELSE rootItems
             at == IF found = 0 THEN Len(withGroup) ELSE found
         IN IF Blacklisted(viewModel, group.display_name)
            THEN AddToGroups(viewModel, rootItems, groups, groupIndex + 1, newItem)
            ELSE AddToGroups(viewModel,
                             [withGroup EXCEPT ![at].items = add(@, newItem)],
                             groups, groupIndex + 1, newItem)

\* Lines 366-429: the loop over item.resources.
RECURSIVE AddResources(_, _, _, _, _, _)
AddResources(viewModel, rootItems, item, itemIndex, resourceIndex, rectangle) ==
    IF resourceIndex > Len(item.resources) THEN rootItems
    ELSE IF SkipsResource(item.resources[resourceIndex])
    THEN AddResources(viewModel, rootItems, item, itemIndex, resourceIndex + 1, rectangle)
    ELSE AddResources(viewModel,
                      AddToGroups(viewModel, rootItems, item.groups, 1,
                                  NewItem(viewModel, item, itemIndex, resourceIndex,
                                          rectangle)),
                      item, itemIndex, resourceIndex + 1, rectangle)

\* Lines 328-430: the loop over the records; rectangle is carried from one
\* iteration to the next.
RECURSIVE AddRecords(_, _, _, _, _)
AddRecords(viewModel, rootItems, items, itemIndex, rectangle) ==
    IF itemIndex > Len(items) THEN rootItems
    ELSE LET item == items[itemIndex]
             rect == RectangleAfter(rectangle, item)
         IN IF Blacklisted(viewModel, item.title)
            THEN AddRecords(viewModel, rootItems, items, itemIndex + 1, rectangle)
            ELSE AddRecords(viewModel,
                            AddResources(viewModel, rootItems, item, itemIndex, 1, rect),
                            items, itemIndex + 1, rect)

\* The comparison without toLowerCase.
compareNamesCaseSensitive(a, b) ==
    IF StrLess(a.name, b.name) THEN 0 - 1
    ELSE IF StrLess(b.name, a.name) THEN 1
    ELSE 0

\* compareNames of lines 432-442.
compareNames(a, b) ==
    LET aName == toLowerCase(a.name)
        bName == toLowerCase(b.name)
    IN IF StrLess(aName, bName) THEN 0 - 1
       ELSE IF StrLess(bName, aName) THEN 1
       ELSE 0

\* Array.prototype.sort with compareNames, as a stable insertion sort.
RECURSIVE InsertByName(_, _)
InsertByName(sorted, x) ==
    IF sorted = <<>> THEN <<x>>
    ELSE IF compareNames(sorted[Len(sorted)], x) <= 0 THEN Append(sorted, x)
    ELSE Append(InsertByName(SubSeq(sorted, 1, Len(sorted) - 1), x), sorted[Len(sorted)])

RECURSIVE sort(_)
sort(items) ==
    IF items = <<>> THEN <<>>
    ELSE InsertByName(sort(SubSeq(items, 1, Len(items) - 1)), items[Len(items)])

\* Lines 444-448.
SortTree(rootItems) ==
    LET sorted == sort(rootItems)
    IN [k \in 1..Len(sorted) |-> [sorted[k] EXCEPT !.items = sort(@)]]

\* A builder that starts from an empty root instead of the children in place.
populateReplacing(viewModel, items) == SortTree(AddRecords(viewModel, <<>>, items, 1, None))

\* populateGroupFromResults(viewModel, json): the children of viewModel after it.
populateGroupFromResults(viewModel, items) ==
    SortTree(AddRecords(viewModel, viewModel.items, items, 1, None))

\* ----------------------------------------------------------- orchestrator
VARIABLES
    viewModel,     \* the CkanGroupViewModel: its properties, its children (items)
                   \* and epoch, the number of _load calls so far
    net,           \* the upstream servers: what each fetch will answer
    promises,      \* the promises array of _load: one [state, value] per query
    loadPromise,   \* the promise _load returned: [state, error]
    allResults,    \* json.result.results of the merged response
    wmsServers,    \* the map filterResultsByGetCapabilities built
    capabilities,  \* per WMS server, the state of its GetCapabilities task
    itemsBefore,   \* viewModel.items when the current _load was called
    populated,     \* populateGroupFromResults has run in the current _load
    settled,       \* the fetches of the current _load in the order they settled
    structure,     \* the TableStructure the caller holds, if any
    returned,      \* the last TableStructure.fromJson call returned a structure
    loads          \* the number of TableStructure.fromJson calls so far

ckanVars == <<viewModel, net, promises, loadPromise, allResults, wmsServers,
              capabilities, itemsBefore, populated, settled>>

tableVars == <<structure, returned, loads>>

vars == <<viewModel, net, promises, loadPromise, allResults, wmsServers,
          capabilities, itemsBefore, populated, settled, structure, returned, loads>>

Pending == [state |-> "pending", value |-> None]
Resolved(json) == [state |-> "resolved", value |-> Some(json)]
Rejected(reason) == [state |-> "rejected", value |-> Some(reason)]

\* A handleError that returns an empty result instead of throwing.
HandleErrorSwallows(response) == Resolved([results |-> <<>>])

\* handleError (lines 178-195) as the rejection handler of loadJson(url):
\* it throws, so the promise pushed to promises is rejected.
OtherwiseHandleError(response) == Rejected("ViewModelError")

\* when.all(promises): rejected as soon as one promise is rejected (the first
\* error wins), resolved once every promise is resolved.
WhenAll(ps) ==
    IF \E k \in DOMAIN ps : ps[k].state = "rejected" THEN "rejected"
    ELSE IF \A k \in DOMAIN ps : ps[k].state = "resolved" THEN "resolved"
    ELSE "pending"

\* Lines 210-213: queryResults[0].result.results followed by those of the
\* other query results, in the order of the promises array.
RECURSIVE ConcatResults(_, _)
ConcatResults(queryResults, p) ==
    IF p > Len(queryResults) THEN <<>>
    ELSE queryResults[p].results \o ConcatResults(queryResults, p + 1)

\* A merge that puts each later query result in front of the earlier ones.
RECURSIVE ConcatResultsInFront(_, _)
ConcatResultsInFront(queryResults, p) ==
    IF p > Len(queryResults) THEN <<>>
    ELSE ConcatResultsInFront(queryResults, p + 1) \o queryResults[p].results

MergeResultsInFront(queryResults) == ConcatResultsInFront(queryResults, 1)

\* The queries in the order their fetches settled; the one that settles in
\* the current step is last.
ArrivalOrder(queryResults) ==
    LET earlier == SelectSeq(settled, LAMBDA s : s[1] = "search")
        last == CHOOSE k \in DOMAIN queryResults :
                    \A n \in DOMAIN earlier : earlier[n][2] # k
    IN [n \in DOMAIN queryResults |-> IF n <= Len(earlier) THEN earlier[n][2] ELSE last]

\* A merge in the order the fetches settled, not in the order of filterQuery.
MergeResultsByArrival(queryResults) ==
    ConcatResults([n \in DOMAIN queryResults |->
                      queryResults[ArrivalOrder(queryResults)[n]]], 1)

MergeResults(queryResults) == ConcatResults(queryResults, 1)

\* The resources every server's map holds.
GroupedResources(servers) == UNION {ResourcesOf(servers[u]) : u \in DOMAIN servers}

\* A filterBasedOnGetCapabilities without its initial loop.
AssumeNothing(items, resources) == items

\* Lines 286-290: initially assume all resources of a server will be filtered.
AssumeFiltered(items, resources) == SetFiltered(items, ResourcesOf(resources), "true")

\* Lines 270-279: filterBasedOnGetCapabilities is called for every server.
RECURSIVE AssumeAllFiltered(_, _, _)
AssumeAllFiltered(items, servers, todo) ==
    IF todo = {} THEN items
    ELSE LET u == CHOOSE x \in todo : TRUE
         IN AssumeAllFiltered(AssumeFiltered(items, servers[u]), servers, todo \ {u})

\* A _load that does not wait for filterResultsByGetCapabilities.
NeverWaits(servers) == FALSE

\* Lines 215-218: the tree is built in the callback of
\* when(filterResultsByGetCapabilities(...)), so not before the promise of
\* every server has settled; without servers that is at once.
CapabilitiesJoinPending(servers) == DOMAIN servers # {}

\* populateGroupFromResults(that, allResults), and _load's promise resolves.
Populate(results) ==
    /\ viewModel' = [viewModel EXCEPT !.items = populateGroupFromResults(viewModel, results)]
    /\ populated' = TRUE
    /\ loadPromise' = [state |-> "resolved", error |-> "none"]

\* The callback of when.all(promises).then (lines 206-222), run with the
\* resolved values of the promises.
\* A test that also holds when only the threshold is set.
CrossValidatesWhenThresholdSet(vm) ==
    vm.filterByWmsGetCapabilities \/ defined(vm.minimumMaxScaleDenominator)

\* Line 215: if (that.filterByWmsGetCapabilities).
CrossValidates(vm) == vm.filterByWmsGetCapabilities

OnSearchResults(queryResults) ==
    IF Len(queryResults) = 0
    THEN \* allResults = queryResults[0] is undefined: reading .result throws
         /\ loadPromise' = [state |-> "rejected", error |-> "TypeError"]
         /\ UNCHANGED <<viewModel, allResults, wmsServers, capabilities, populated>>
    ELSE LET merged == MergeResults(queryResults)
             servers == WmsServersOf(merged)
             flagged == AssumeAllFiltered(merged, servers, DOMAIN servers)
         IN IF CrossValidates(viewModel)
            THEN /\ allResults' = flagged
                 /\ wmsServers' = servers
                 /\ capabilities' = [u \in DOMAIN servers |-> "pending"]
                 /\ IF CapabilitiesJoinPending(servers)
                    THEN UNCHANGED <<viewModel, populated, loadPromise>>
                    ELSE Populate(flagged)
            ELSE /\ allResults' = merged
                 /\ Populate(merged)
                 /\ UNCHANGED <<wmsServers, capabilities>>

NoFetchOutstanding ==
    /\ \A k \in DOMAIN promises : promises[k].state # "pending"
    /\ \A u \in DOMAIN capabilities : capabilities[u] # "pending"

\* CkanGroupViewModel.prototype._load
Load ==
    /\ viewModel.epoch < MaxRuns
    /\ NoFetchOutstanding
    /\ loadPromise.state # "pending"
    /\ itemsBefore' = viewModel.items
    /\ settled' = <<>>
    /\ UNCHANGED <<net, structure, returned, loads>>
    /\ IF viewModel.url = ""
       THEN /\ viewModel' = [viewModel EXCEPT !.epoch = @ + 1]
            /\ promises' = <<>>
            /\ loadPromise' = [state |-> "undefined", error |-> "none"]
            /\ allResults' = <<>>
            /\ wmsServers' = <<>>
            /\ capabilities' = <<>>
            /\ populated' = FALSE
       ELSE IF Len(viewModel.filterQuery) = 0
       THEN \* when.all([]) is resolved with []: the callback runs at once
            /\ viewModel' = [viewModel EXCEPT !.epoch = @ + 1]
            /\ promises' = <<>>
            /\ loadPromise' = [state |-> "rejected", error |-> "TypeError"]
            /\ allResults' = <<>>
            /\ wmsServers' = <<>>
            /\ capabilities' = <<>>
            /\ populated' = FALSE
       ELSE /\ viewModel' = [viewModel EXCEPT !.epoch = @ + 1]
            /\ promises' = [k \in 1..Len(viewModel.filterQuery) |-> Pending]
            /\ loadPromise' = [state |-> "pending", error |-> "none"]
            /\ allResults' = <<>>
            /\ wmsServers' = <<>>
            /\ capabilities' = <<>>
            /\ populated' = FALSE

\* Search promise i settles as `outcome`; then when.all and _load's callback.
SettleSearch(i, outcome) ==
    LET before == WhenAll(promises)
        ps == [promises EXCEPT ![i] = outcome]
        after == WhenAll(ps)
    IN /\ promises' = ps
       /\ settled' = Append(settled, <<"search", i>>)
       /\ UNCHANGED <<net, itemsBefore, structure, returned, loads>>
       /\ IF before = "pending" /\ after = "rejected"
          THEN /\ loadPromise' = [state |-> "rejected", error |-> outcome.value[1]]
               /\ UNCHANGED <<viewModel, allResults, wmsServers, capabilities, populated>>
          ELSE IF before = "pending" /\ after = "resolved"
          THEN OnSearchResults([k \in DOMAIN ps |-> ps[k].value[1]])
          ELSE UNCHANGED <<viewModel, loadPromise, allResults, wmsServers,
                           capabilities, populated>>

\* loadJson(url) of query i resolves with the server's JSON.
SearchLoaded(i) ==
    /\ promises[i].state = "pending"
    /\ net.search[i].ok
    /\ SettleSearch(i, Resolved([results |-> net.search[i].results]))

\* loadJson(url) of query i fails: handleError runs.
SearchFailed(i) ==
    /\ promises[i].state = "pending"
    /\ ~net.search[i].ok
    /\ SettleSearch(i, OtherwiseHandleError(net.search[i]))

\* A GetCapabilities task settled; when.all of the tasks, then the callback of
\* line 216-218.
SettleCapabilities(server, results) ==
    LET caps == [capabilities EXCEPT ![server] = "settled"]
    IN /\ capabilities' = caps
       /\ allResults' = results
       /\ settled' = Append(settled, <<"capabilities", server>>)
       /\ UNCHANGED <<net, promises, wmsServers, itemsBefore, structure, returned, loads>>
       /\ IF \A u \in DOMAIN caps : caps[u] = "settled"
          THEN Populate(results)
          ELSE UNCHANGED <<viewModel, populated, loadPromise>>

\* loadText(getCapabilitiesUrl) resolves: lines 292-297.  $.xml2json throwing,
\* or a document without Capability.Layer, ends in the otherwise handler.
CapabilitiesLoaded(server) ==
    /\ server \in DOMAIN capabilities
    /\ capabilities[server] = "pending"
    /\ net.caps[server].kind # "error"
    /\ LET response == net.caps[server]
       IN IF response.kind = "text" /\ defined(response.Layer)
          THEN SettleCapabilities(server,
                   SetFiltered(allResults,
                       filterBasedOnGetCapabilitiesResponse(viewModel, response.Layer[1],
                                                            wmsServers[server]),
                       "false"))
          ELSE SettleCapabilities(server, allResults)

\* loadText(getCapabilitiesUrl) fails: the otherwise handler does nothing.
CapabilitiesFailed(server) ==
    /\ server \in DOMAIN capabilities
    /\ capabilities[server] = "pending"
    /\ net.caps[server].kind = "error"
    /\ SettleCapabilities(server, allResults)

\* --------------------------------------------------------- TableStructure
\* new TableStructure(): lines 20-24.  _columnsByType and _rows are undefined.
NewTableStructure == [columns |-> <<>>, _columnsByType |-> None, _rows |-> None]

\* The types a TableColumn can have.
VarTypes == {"SCALAR", "ENUM"}

\* new TableColumn(name, values) of line 63.  The constructor decides the type
\* from the name and the values; here the type is given.
TableColumn(name, values, type) == [name |-> name, values |-> values, type |-> type]

\* String.prototype.trim on a string of characters.
RECURSIVE trim(_)
trim(str) ==
    IF str = <<>> THEN <<>>
    ELSE IF Head(str) = " " THEN trim(Tail(str))
    ELSE IF str[Len(str)] = " " THEN trim(SubSeq(str, 1, Len(str) - 1))
    ELSE str

\* String(columnNumber) for the column numbers of the model.
Digits == <<"0", "1", "2", "3", "4", "5", "6", "7", "8", "9">>

\* Line 58: the name of column c (counted from 1; columnNumber is c - 1).  An
\* empty header cell is falsy.
ColumnName(columnNames, c) ==
    IF columnNames[c] # <<>> THEN trim(columnNames[c])
    ELSE <<"_", "C", "o", "l", "u", "m", "n", Digits[c]>>

\* Lines 59-62: the values of column c, from the rows after the first.
ColumnValues(json, c) == [r \in 1..(Len(json) - 1) |-> json[r + 1][c]]

\* The loop of setColumnsByType (lines 197-205) from column i on.  byType is
\* structure._columnsByType.  columnsOfThisType = [column] assigns the local
\* variable only; push changes the array that the object holds.
RECURSIVE ColumnsByTypeFrom(_, _, _)
ColumnsByTypeFrom(columns, i, byType) ==
    IF i > Len(columns) THEN byType
    ELSE LET column == columns[i]
             columnsOfThisType ==
                 IF column.type \in DOMAIN byType THEN Some(byType[column.type]) ELSE None
         IN IF defined(columnsOfThisType)
            THEN ColumnsByTypeFrom(columns, i + 1,
                                   [byType EXCEPT ![column.type] = Append(@, column)])
            ELSE ColumnsByTypeFrom(columns, i + 1, byType)

\* setColumnsByType(structure): lines 195-206.  The object starts as {}.
setColumnsByType(table) ==
    [table EXCEPT !._columnsByType = Some(ColumnsByTypeFrom(table.columns, 1, <<>>))]

\* TableStructure.fromJson(json, result): None when it returns undefined.
\* types[c] is the type the TableColumn constructor gives column c.
fromJson(json, result, types) ==
    IF ~defined(json) \/ Len(json[1]) = 0 \/ Len(json[1][1]) = 0 THEN None
    ELSE LET table == IF defined(result) THEN result[1] ELSE NewTableStructure
             columnNames == json[1][1]
             columns == [c \in 1..Len(columnNames) |->
                            TableColumn(ColumnName(columnNames, c),
                                        ColumnValues(json[1], c), types[c])]
         IN Some(setColumnsByType([table EXCEPT !._rows = json,
                                                !.columns = @ \o columns]))

\* The number of columns fromJson makes for json.
ColumnsIn(json) ==
    IF ~defined(json) \/ Len(json[1]) = 0 THEN 0 ELSE Len(json[1][1])

\* A call of TableStructure.fromJson(json, result); the caller keeps the
\* structure it gets, or the one it had when it gets none.
FromJson(json, result) ==
    /\ loads < MaxLoads
    /\ loads' = loads + 1
    /\ \E types \in [1..ColumnsIn(json) -> VarTypes] :
           LET answer == fromJson(json, result, types)
           IN /\ returned' = defined(answer)
              /\ structure' = IF defined(answer) THEN answer ELSE structure
    /\ UNCHANGED ckanVars

\* ------------------------------------------------------------ the inputs
Uri(base, query) == Some([base |-> base, query |-> query])

Resource(format, wms_url, url) ==
    [format |-> format, wms_url |-> wms_url, url |-> url, filtered |-> Undef]

Record(title, geo_coverage, extras, groups, organization, resources) ==
    [title |-> title, geo_coverage |-> geo_coverage, extras |-> extras,
     groups |-> [k \in DOMAIN groups |-> [display_name |-> groups[k]]],
     organization |-> organization, resources |-> resources]

LayerNode(name, maxScaleDenominator, layer) ==
    [Name |-> name, MaxScaleDenominator |-> maxScaleDenominator, Layer |-> layer]

LayerArray(nodes) == Some([kind |-> "array", nodes |-> nodes])
LayerObject(node) == Some([kind |-> "object", node |-> node])

ServerA == "http://a/wms"
ServerB == "http://b/wms"
Servers == {ServerA, ServerB}

GroupOne == <<"G", "1">>
GroupTwo == <<"G", "2">>

\* A record with a four-part geo_coverage "1,2,1,2".
RecordA ==
    Record(<<"A">>, Some(<<"1", ",", "2", ",", "1", ",", "2">>), <<>>, <<GroupOne>>, None,
           <<Resource(<<"W", "M", "S">>, None,
                      Uri(ServerA, << <<"LAYERS", "rain">>, <<"x", "1">> >>))>>)

\* A record without geo_coverage whose resource names the layer of RecordA.
RecordB ==
    Record(<<"B">>, None, <<>>, <<GroupTwo>>, None,
           <<Resource(<<"w", "m", "s">>,
                      Uri(ServerA, << <<"LAYERS", "rain">> >>), None)>>)

\* A record with a two-part geo_coverage "1,2" in its extras, in two groups,
\* with two resources that name the same layer of the other server.
RecordC ==
    Record(<<"C">>, None, <<[key |-> "geo_coverage", value |-> Some(<<"1", ",", "2">>)]>>,
           <<GroupOne, GroupTwo>>, None,
           <<Resource(<<"W", "m", "s">>, None, Uri(ServerB, << <<"LAYERS", "snow">> >>)),
             Resource(<<"W", "M", "S">>, Uri(ServerB, << <<"LAYERS", "snow">> >>), None)>>)

RecordPool == {RecordA, RecordB, RecordC}

\* Group names that differ in case only, and one that sorts after both.
Water == <<"W", "a", "t", "e", "r">>
appleLower == <<"a", "p", "p", "l", "e">>
AppleUpper == <<"A", "p", "p", "l", "e">>

\* Records whose titles differ in case only, in groups whose names do.
RecordLower ==
    Record(<<"a">>, None, <<>>, <<Water, appleLower, AppleUpper>>, None,
           <<Resource(<<"W", "M", "S">>, None, Uri(ServerA, << <<"LAYERS", "rain">> >>))>>)

RecordUpper ==
    Record(<<"A">>, None, <<>>, <<AppleUpper, appleLower>>, None,
           <<Resource(<<"W", "M", "S">>, None, Uri(ServerA, << <<"LAYERS", "rain">> >>))>>)

\* A record whose WMS URL names its layer with a lower-case layers parameter.
RecordLayersLower ==
    Record(<<"A">>, None, <<>>, <<GroupOne>>, None,
           <<Resource(<<"W", "M", "S">>, None, Uri(ServerA, << <<"layers", "rain">> >>))>>)

\* An Esri REST endpoint; it is no WMS server and is never asked for capabilities.
EsriServer == "http://e/rest"

\* A record with an Esri REST resource and a WMS resource.
RecordEsri ==
    Record(<<"E">>, None, <<>>, <<GroupOne>>, None,
           <<Resource(<<"E", "s", "r", "i", " ", "R", "E", "S", "T">>, None,
                      Uri(EsriServer, <<>>)),
             Resource(<<"W", "M", "S">>, None, Uri(ServerA, << <<"LAYERS", "rain">> >>))>>)

\* A record that is in no group.
RecordNoGroups ==
    Record(<<"A">>, None, <<>>, <<>>, None,
           <<Resource(<<"W", "M", "S">>, None, Uri(ServerA, << <<"LAYERS", "rain">> >>))>>)

\* item.organization: nothing, or an object with a title, a description or both.
Organizations ==
    {None,
     Some([title |-> "org title", description |-> Undef]),
     Some([title |-> Undef, description |-> "org description"]),
     Some([title |-> "org title", description |-> "org description"]),
     Some([title |-> "org title", description |-> ""])}

\* RecordA with an organization.
RecordOf(organization) == [RecordA EXCEPT !.organization = organization]

\* The largest number of records the search responses of a run hold together.
MaxRecords == 2

RecordListsOver(pool) == UNION {[1..n -> pool] : n \in 0..MaxRecords}

RecordLists == RecordListsOver(RecordPool)

\* What a search query is answered with: a failure, or records of two servers.
SearchResponses ==
    {[ok |-> FALSE, results |-> <<>>]}
        \cup {[ok |-> TRUE, results |-> r] : r \in RecordListsOver({RecordA, RecordC})}

RECURSIVE TotalRecords(_)
TotalRecords(search) ==
    IF search = <<>> THEN 0 ELSE Len(Head(search).results) + TotalRecords(Tail(search))

\* The answers to q search queries.
SearchAnswers(q) == {s \in [1..q -> SearchResponses] : TotalRecords(s) <= MaxRecords}

\* The configured minimumMaxScaleDenominator, when one is configured.
Threshold == Some(2)

\* Capability documents: getCapabilitiesJson.Capability.Layer.
FetchError == [kind |-> "error", Layer |-> None]
Malformed == [kind |-> "malformed", Layer |-> None]
NoLayer == [kind |-> "text", Layer |-> None]
\* rain below the threshold, snow without a scale limit
DocBelow ==
    [kind |-> "text",
     Layer |-> LayerArray(<<LayerNode("rain", Some(1), None), LayerNode("snow", None, None)>>)]
\* a single layer, rain exactly at the threshold
DocAt == [kind |-> "text", Layer |-> LayerObject(LayerNode("rain", Some(2), None))]
\* an unnamed root; snow below the threshold with rain nested under it
DocNested ==
    [kind |-> "text",
     Layer |-> LayerObject(LayerNode(Undef, None,
                  LayerArray(<<LayerNode("snow", Some(1),
                                  LayerObject(LayerNode("rain", None, None)))>>)))]

\* rain twice: without a scale limit, then below the threshold
DocTwice ==
    [kind |-> "text",
     Layer |-> LayerArray(<<LayerNode("rain", None, None), LayerNode("rain", Some(1), None)>>)]

CapResponses == {FetchError, Malformed, NoLayer, DocBelow, DocAt, DocNested}

ExistingGroup ==
    [type |-> "group", name |-> GroupTwo,
     items |-> <<[oid |-> <<0, 0, 0>>, type |-> "wms", name |-> <<"B">>, url |-> ServerA,
                  layers |-> "old", rectangle |-> None, dataCustodian |-> Undef]>>]

\* A root whose children were added by hand, in no particular order.
UnsortedRoot ==
    <<[type |-> "group", name |-> Water,
       items |-> <<[oid |-> <<0, 0, 1>>, type |-> "wms", name |-> <<"b">>, url |-> ServerB,
                    layers |-> "old", rectangle |-> None, dataCustodian |-> Undef],
                   [oid |-> <<0, 0, 2>>, type |-> "wms", name |-> <<"A">>, url |-> ServerB,
                    layers |-> "old", rectangle |-> None, dataCustodian |-> Undef]>>],
      ExistingGroup>>

\* The properties the constructor sets (lines 31-94), as configured.
ViewModel(url, filterQuery, blacklist, byCapabilities, minimum, dataCustodian, items) ==
    [url |-> url, filterQuery |-> filterQuery, blacklist |-> blacklist,
     filterByWmsGetCapabilities |-> byCapabilities,
     minimumMaxScaleDenominator |-> minimum,
     dataCustodian |-> dataCustodian, items |-> items, epoch |-> 0]

World(vm, search, caps) == [viewModel |-> vm, net |-> [search |-> search, caps |-> caps]]

\* Any number of queries, any mix of answers and failures.
OrchestrationWorlds ==
    UNION {{World(ViewModel("http://ckan", [k \in 1..q |-> k], {}, byCaps, None, Undef,
                          items),
                  search, [u \in Servers |-> IF byCaps THEN DocBelow ELSE FetchError]) :
               byCaps \in BOOLEAN, items \in {<<>>, <<ExistingGroup>>},
               search \in SearchAnswers(q)} : q \in 0..MaxQueries}

\* One query; cross-validation against every pair of capability responses.
FilteringWorlds ==
    {World(ViewModel("http://ckan", <<1>>, {}, TRUE, minimum, Undef, <<>>),
           <<[ok |-> TRUE, results |-> r]>>, caps) :
        minimum \in {None, Threshold}, r \in RecordLists,
        caps \in [Servers -> CapResponses]}

\* One query; blacklists, a custodian override and a root with a child.
BuildingWorlds ==
    {World(ViewModel("http://ckan", <<1>>, blacklist, byCaps, None, custodian, items),
           <<[ok |-> TRUE, results |-> r]>>, [u \in Servers |-> DocNested]) :
        blacklist \in {{}, {<<"B">>}, {<<"B">>, GroupOne}},
        byCaps \in BOOLEAN, custodian \in {Undef, "custodian"},
        items \in {<<>>, <<ExistingGroup>>}, r \in RecordLists}

\* One record with any organization, with and without a custodian override.
CustodianWorlds ==
    {World(ViewModel("http://ckan", <<1>>, {}, FALSE, None, custodian, <<>>),
           <<[ok |-> TRUE, results |-> <<RecordOf(organization)>>]>>,
           [u \in Servers |-> FetchError]) :
        custodian \in {Undef, "custodian"}, organization \in Organizations}

\* Names that differ in case only, added to an empty or an unsorted root.
SortingWorlds ==
    {World(ViewModel("http://ckan", <<1>>, {}, FALSE, None, Undef, items),
           <<[ok |-> TRUE, results |-> r]>>, [u \in Servers |-> FetchError]) :
        items \in {<<>>, UnsortedRoot}, r \in RecordListsOver({RecordLower, RecordUpper})}

\* A threshold is set, and the servers would hide rain, but cross-validation
\* is off.
ThresholdWorlds ==
    {World(ViewModel("http://ckan", <<1>>, {}, FALSE, Threshold, Undef, <<>>),
           <<[ok |-> TRUE, results |-> r]>>, [u \in Servers |-> DocBelow]) :
        r \in RecordLists}

\* A document whose later node for rain fails the scale test that an earlier
\* one passes.
WalkWorlds ==
    {World(ViewModel("http://ckan", <<1>>, {}, TRUE, Threshold, Undef, <<>>),
           <<[ok |-> TRUE, results |-> r]>>,
           [u \in Servers |-> IF u = ServerA THEN DocTwice ELSE FetchError]) :
        r \in RecordListsOver({RecordA})}

\* The layer is named by a lower-case layers parameter; the server lists rain
\* without a scale limit.
LowerCaseWorlds ==
    {World(ViewModel("http://ckan", <<1>>, {}, byCaps, None, Undef, <<>>),
           <<[ok |-> TRUE, results |-> r]>>,
           [u \in Servers |-> DocNested]) :
        byCaps \in BOOLEAN, r \in RecordListsOver({RecordLayersLower})}

\* An Esri REST resource next to a WMS resource, with and without
\* cross-validation.
EsriWorlds ==
    {World(ViewModel("http://ckan", <<1>>, {}, byCaps, minimum, Undef, <<>>),
           <<[ok |-> TRUE, results |-> r]>>,
           [u \in Servers |-> IF u = ServerA THEN caps ELSE FetchError]) :
        byCaps \in BOOLEAN, minimum \in {None, Threshold}, caps \in {DocBelow, FetchError},
        r \in RecordListsOver({RecordEsri, RecordC})}

\* Records in no group, in two groups, and in groups that are blacklisted.
GroupWorlds ==
    {World(ViewModel("http://ckan", <<1>>, blacklist, FALSE, None, Undef, <<>>),
           <<[ok |-> TRUE, results |-> r]>>, [u \in Servers |-> FetchError]) :
        blacklist \in {{}, {GroupOne}, {GroupOne, GroupTwo}},
        r \in RecordListsOver({RecordNoGroups, RecordC})}

\* No URL: _load returns undefined.
IdleWorlds ==
    {World(ViewModel("", <<1>>, {}, byCaps, None, Undef, items),
           <<[ok |-> TRUE, results |-> <<RecordA>>]>>, [u \in Servers |-> DocBelow]) :
        byCaps \in BOOLEAN, items \in {<<>>, <<ExistingGroup>>}}

Worlds ==
    OrchestrationWorlds \cup FilteringWorlds \cup BuildingWorlds \cup IdleWorlds
        \cup CustodianWorlds \cup SortingWorlds \cup ThresholdWorlds \cup WalkWorlds
        \cup LowerCaseWorlds \cup EsriWorlds \cup GroupWorlds

Init ==
    /\ \E w \in Worlds : viewModel = w.viewModel /\ net = w.net
    /\ promises = <<>>
    /\ loadPromise = [state |-> "none", error |-> "none"]
    /\ allResults = <<>>
    /\ wmsServers = <<>>
    /\ capabilities = <<>>
    /\ itemsBefore = viewModel.items
    /\ populated = FALSE
    /\ settled = <<>>
    /\ structure = None
    /\ returned = FALSE
    /\ loads = 0

Next ==
    \/ Load
    \/ \E i \in DOMAIN promises : SearchLoaded(i)
    \/ \E i \in DOMAIN promises : SearchFailed(i)
    \/ \E server \in Servers : CapabilitiesLoaded(server)
    \/ \E server \in Servers : CapabilitiesFailed(server)

Spec == Init /\ [][Next]_vars

\* The tables TableStructure.fromJson is called with: none, one without rows,
\* one with an empty first row, and tables with a first row of names.
JsonTables ==
    {None, Some(<<>>), Some(<< <<>> >>),
     Some(<< << <<"x">> >> >>),
     Some(<< << <<"x">>, <<"y">> >>, <<"1", "5">>, <<"3", "8">> >>),
     Some(<< << <<" ", "x", " ">>, <<>> >>, <<"1", "a">> >>)}

\* No structure yet; the catalog group is idle.
InitTable ==
    /\ viewModel = ViewModel("", <<>>, {}, FALSE, None, Undef, <<>>)
    /\ net = [search |-> <<>>, caps |-> [u \in Servers |-> FetchError]]
    /\ promises = <<>>
    /\ loadPromise = [state |-> "none", error |-> "none"]
    /\ allResults = <<>>
    /\ wmsServers = <<>>
    /\ capabilities = <<>>
    /\ itemsBefore = <<>>
    /\ populated = FALSE
    /\ settled = <<>>
    /\ structure = None
    /\ returned = FALSE
    /\ loads = 0

\* fromJson(json): a new structure is made.
FromJsonNew == \E json \in JsonTables : FromJson(json, None)

\* fromJson(json, result) with the structure the caller holds.
FromJsonInto == defined(structure) /\ \E json \in JsonTables : FromJson(json, structure)

NextTable == FromJsonNew \/ FromJsonInto

SpecTable == InitTable /\ [][NextTable]_vars

\* ------------------------------------------------------------- properties
\* The items of every group under the root.
TreeItems(rootItems) ==
    UNION {{rootItems[g].items[k] : k \in 1..Len(rootItems[g].items)} :
              g \in 1..Len(rootItems)}

\* The items the current _load made for the resource at ref.
ItemsFor(ref) ==
    {it \in TreeItems(viewModel.items) : it.oid = <<viewModel.epoch, ref[1], ref[2]>>}
        \ TreeItems(itemsBefore)

\* The items the current _load made.
ItemsMadeNow ==
    {it \in TreeItems(viewModel.items) : it.oid[1] = viewModel.epoch}
        \ TreeItems(itemsBefore)

AllRefs(items) ==
    UNION {{<<i, j>> : j \in 1..Len(items[i].resources)} : i \in 1..Len(items)}

ResourceAt(ref) == allResults[ref[1]].resources[ref[2]]

\* A record as the server sent it: no resource has a __filtered property.
Unfiltered(item) ==
    [item EXCEPT !.resources = [j \in DOMAIN @ |-> [@[j] EXCEPT !.filtered = Undef]]]

\* The number of records the queries before query i returned.
Offset(i) == TotalRecords(SubSeq(net.search, 1, i - 1))

AllSearchResolved ==
    promises # <<>> /\ \A k \in DOMAIN promises : promises[k].state = "resolved"

\* Some search fetch of the current _load has failed.
SomeSearchFailed ==
    \E k \in DOMAIN promises : promises[k].state # "pending" /\ ~net.search[k].ok

\* C1: once every search fetch has succeeded, the merged record list is the
\* per-query result lists one after the other in the order of filterQuery,
\* whatever the order in which the fetches completed.
C1_MergedInDeclarationOrder ==
    AllSearchResolved =>
        /\ Len(allResults) = TotalRecords(net.search)
        /\ \A i \in DOMAIN net.search : \A k \in 1..Len(net.search[i].results) :
               Unfiltered(allResults[Offset(i) + k]) = net.search[i].results[k]

\* Two queries with different records, the second answered first, merged.
C1_Witness ==
    /\ AllSearchResolved
    /\ Len(promises) = 2
    /\ settled # <<>> /\ settled[1] = <<"search", 2>>
    /\ Len(net.search[1].results) = 1 /\ Len(net.search[2].results) = 1
    /\ net.search[1].results[1] # net.search[2].results[1]
    /\ Len(allResults) = 2
    /\ allResults[1].title = net.search[1].results[1].title

\* C2: once a search fetch of a run has failed, the run is a reported failure,
\* the root has the children it had before the run, no capability fetch was
\* issued and the tree builder has not run.
C2_FailureExposesNoTree ==
    SomeSearchFailed =>
        /\ loadPromise = [state |-> "rejected", error |-> "ViewModelError"]
        /\ viewModel.items = itemsBefore
        /\ DOMAIN capabilities = {}
        /\ ~populated

\* One query failed, the other succeeded with records.
C2_Witness ==
    /\ Len(promises) = 2
    /\ \E k \in DOMAIN promises : promises[k].state = "rejected"
    /\ \E k \in DOMAIN promises :
           promises[k].state = "resolved" /\ net.search[k].results # <<>>
    /\ loadPromise.state = "rejected"

C4_EmptyFilterQueryIsNoError ==
    (viewModel.epoch > 0 /\ viewModel.url # "" /\ Len(viewModel.filterQuery) = 0) =>
        /\ promises = <<>>
        /\ loadPromise.state # "rejected"
        /\ viewModel.items = itemsBefore

\* The capability coordinator of the current run has completed.
CoordinatorDone ==
    /\ viewModel.filterByWmsGetCapabilities
    /\ AllSearchResolved
    /\ \A u \in DOMAIN capabilities : capabilities[u] = "settled"

\* A WMS resource with a usable URL.
IsWms(resource) == wmsFormatRegex(resource.format) /\ defined(ResourceUrl(resource))

EndpointOf(resource) == StripSearch(ResourceUrl(resource)[1])
LayerNameOf(resource) == SearchParam(ResourceUrl(resource)[1], "LAYERS")

\* C5: after the coordinator has completed, two WMS resources with the same
\* stripped endpoint and the same layer name carry the same filtered flag.
C5_SameKeySameFlag ==
    CoordinatorDone =>
        \A r1 \in AllRefs(allResults) : \A r2 \in AllRefs(allResults) :
            (/\ IsWms(ResourceAt(r1)) /\ IsWms(ResourceAt(r2))
             /\ EndpointOf(ResourceAt(r1)) = EndpointOf(ResourceAt(r2))
             /\ LayerNameOf(ResourceAt(r1)) = LayerNameOf(ResourceAt(r2)))
                => ResourceAt(r1).filtered = ResourceAt(r2).filtered

\* Every node of a capability layer source, at any depth.
RECURSIVE AllLayers(_)
AllLayers(wmsLayersSource) ==
    LET nodes == AsArray(wmsLayersSource)
    IN UNION {{nodes[i]} \cup (IF defined(nodes[i].Layer)
                                THEN AllLayers(nodes[i].Layer[1]) ELSE {}) :
                 i \in 1..Len(nodes)}

\* The capability layers of the resource's server that carry its layer name.
MatchingLayers(resource) ==
    LET response == net.caps[EndpointOf(resource)]
    IN IF response.kind = "text" /\ defined(response.Layer)
       THEN {n \in AllLayers(response.Layer[1]) :
                n.Name # Undef /\ n.Name = LayerNameOf(resource)}
       ELSE {}

\* The record of ref is not blacklisted and has a group that is not.
Includable(ref) ==
    /\ allResults[ref[1]].title \notin viewModel.blacklist
    /\ \E g \in DOMAIN allResults[ref[1]].groups :
           allResults[ref[1]].groups[g].display_name \notin viewModel.blacklist

\* C6: with cross-validation and the threshold X configured, a WMS resource
\* whose only matching capability layer has MaxScaleDenominator X - 1 is
\* filtered and has no item in the tree; one with a matching layer of
\* MaxScaleDenominator X, or without one, is not filtered and has its item.
C6_ScaleBoundaryInclusive ==
    (CoordinatorDone /\ populated /\ viewModel.minimumMaxScaleDenominator = Threshold) =>
        \A ref \in AllRefs(allResults) :
            IsWms(ResourceAt(ref)) =>
                LET matching == MatchingLayers(ResourceAt(ref))
                    X == Threshold[1]
                IN /\ (/\ Cardinality(matching) = 1
                       /\ \A n \in matching : n.MaxScaleDenominator = Some(X - 1))
                          => /\ ResourceAt(ref).filtered = "true"
                             /\ ItemsFor(ref) = {}
                   /\ (\E n \in matching : n.MaxScaleDenominator \in {None, Some(X)})
                          => /\ ResourceAt(ref).filtered = "false"
                             /\ Includable(ref) => ItemsFor(ref) # {}

\* The server's capability fetch or its parsing fails.
CapabilitiesUnavailable(server) ==
    net.caps[server].kind # "text" \/ ~defined(net.caps[server].Layer)

\* C7: a server whose capability fetch or parse failed leaves every resource
\* grouped under it filtered and without an item; the resources grouped under
\* a server whose fetch succeeded are cleared exactly when that server's own
\* document has a layer of their name that passes the scale test; and when
\* every task has settled the tree builder has run and the run has succeeded.
C7_FailedEndpointStaysFiltered ==
    viewModel.filterByWmsGetCapabilities =>
        /\ \A u \in DOMAIN capabilities :
               capabilities[u] = "settled" =>
                   \A ref \in ResourcesOf(wmsServers[u]) :
                       IF CapabilitiesUnavailable(u)
                       THEN ResourceAt(ref).filtered = "true" /\ ItemsFor(ref) = {}
                       ELSE ResourceAt(ref).filtered = "false" <=>
                                \E n \in AllLayers(net.caps[u].Layer[1]) :
                                    /\ n.Name # Undef
                                    /\ n.Name = LayerNameOf(ResourceAt(ref))
                                    /\ \/ ~defined(viewModel.minimumMaxScaleDenominator)
                                       \/ ~defined(n.MaxScaleDenominator)
                                       \/ n.MaxScaleDenominator[1] >=
                                              viewModel.minimumMaxScaleDenominator[1]
        /\ CoordinatorDone =>
               populated /\ loadPromise = [state |-> "resolved", error |-> "none"]

\* Two servers, one failed, the other cleared a resource whose item is in the tree.
C7_Witness ==
    /\ CoordinatorDone
    /\ \E u \in DOMAIN capabilities : \E v \in DOMAIN capabilities :
           /\ net.caps[u].kind = "error"
           /\ ResourcesOf(wmsServers[u]) # {}
           /\ \E ref \in ResourcesOf(wmsServers[v]) :
                  ResourceAt(ref).filtered = "false" /\ ItemsFor(ref) # {}
    /\ populated

\* C8: the children of the root differ from those at the start of the run only
\* when no search fetch and no capability fetch of the run is outstanding.
C8_RootChangedOnlyAfterFetches ==
    viewModel.items # itemsBefore => NoFetchOutstanding

\* The root has changed after two searches and a capability fetch.
C8_Witness ==
    /\ viewModel.items # itemsBefore
    /\ Len(promises) = 2
    /\ DOMAIN capabilities # {}

\* The names of the groups directly under the root.
GroupNames(rootItems) == {rootItems[g].name : g \in 1..Len(rootItems)}

\* C9: no item made by the run is named by a blacklisted title, and every
\* group the run added to the root is referenced by a record whose title is
\* not blacklisted.
C9_BlacklistedTitleContributesNothing ==
    /\ \A it \in ItemsMadeNow : it.name \notin viewModel.blacklist
    /\ \A name \in GroupNames(viewModel.items) \ GroupNames(itemsBefore) :
           \E i \in DOMAIN allResults :
               /\ allResults[i].title \notin viewModel.blacklist
               /\ \E g \in DOMAIN allResults[i].groups :
                      allResults[i].groups[g].display_name = name

\* A blacklisted record, which alone references its group, was processed next
\* to a record that got its item.
C9_Witness ==
    /\ populated
    /\ ItemsMadeNow # {}
    /\ \E i \in DOMAIN allResults :
           /\ allResults[i].title \in viewModel.blacklist
           /\ \A g \in DOMAIN allResults[i].groups :
                  allResults[i].groups[g].display_name \notin GroupNames(viewModel.items)

\* C10: an item of a record whose geographic coverage is absent or has not
\* exactly four parts has no rectangle; an item of a record with four parts
\* has the rectangle of these four.
C10_RectangleFromOwnRecord ==
    populated =>
        \A it \in ItemsMadeNow :
            LET bboxString == BboxString(allResults[it.oid[2]])
            IN IF defined(bboxString) /\ Len(split(bboxString[1])) = 4
               THEN it.rectangle = RectangleFromDegrees(split(bboxString[1]))
               ELSE it.rectangle = None

\* C11: the custodian of an item is the configured override if there is one,
\* else the description of the record's organization if it has one, else the
\* title of the organization if it has one, else unset.
C11_CustodianPriority ==
    populated =>
        \A it \in ItemsMadeNow :
            LET organization == allResults[it.oid[2]].organization
                Has(field) == field # Undef /\ field # ""
            IN it.dataCustodian =
                   IF viewModel.dataCustodian # Undef THEN viewModel.dataCustodian
                   ELSE IF defined(organization) /\ Has(organization[1].description)
                   THEN organization[1].description
                   ELSE IF defined(organization) /\ Has(organization[1].title)
                   THEN organization[1].title
                   ELSE Undef

\* The run started from an empty root and found exactly one record, which has
\* one WMS resource whose URL carries a LAYERS parameter and one group; neither
\* its title nor its group is blacklisted and cross-validation is off.
OneRecordOneResourceOneGroup ==
    /\ ~viewModel.filterByWmsGetCapabilities
    /\ itemsBefore = <<>>
    /\ Len(allResults) = 1
    /\ allResults[1].title \notin viewModel.blacklist
    /\ Len(allResults[1].resources) = 1
    /\ allResults[1].resources[1].format \in {<<"W", "M", "S">>, <<"w", "m", "s">>}
    /\ ~defined(allResults[1].resources[1].wms_url)
    /\ defined(allResults[1].resources[1].url)
    /\ \E k \in DOMAIN allResults[1].resources[1].url[1].query :
           allResults[1].resources[1].url[1].query[k][1] = "LAYERS"
    /\ Len(allResults[1].groups) = 1
    /\ allResults[1].groups[1].display_name \notin viewModel.blacklist

\* C12: with cross-validation off, one non-blacklisted record titled T with one
\* WMS resource at U?LAYERS=L&... and one non-blacklisted group G gives a root
\* with exactly one group, named G, holding exactly one item, with name T, url
\* U without its query string and layer L.
C12_OneRecordOneGroupOneItem ==
    (populated /\ OneRecordOneResourceOneGroup) =>
        LET record == allResults[1]
            uri == record.resources[1].url[1]
        IN /\ Len(viewModel.items) = 1
           /\ viewModel.items[1].type = "group"
           /\ viewModel.items[1].name = record.groups[1].display_name
           /\ Len(viewModel.items[1].items) = 1
           /\ viewModel.items[1].items[1].type = "wms"
           /\ viewModel.items[1].items[1].name = record.title
           /\ viewModel.items[1].items[1].url = uri.base
           /\ \E k \in DOMAIN uri.query :
                  /\ uri.query[k][1] = "LAYERS"
                  /\ \A j \in 1..(k - 1) : uri.query[j][1] # "LAYERS"
                  /\ viewModel.items[1].items[1].layers = uri.query[k][2]

C12_Witness ==
    /\ populated
    /\ OneRecordOneResourceOneGroup
    /\ allResults[1].resources[1].format = <<"W", "M", "S">>
    /\ Len(allResults[1].resources[1].url[1].query) > 1
    /\ viewModel.items # <<>>

\* The children of the root as the loops of lines 328-430 leave them, before
\* the sorts of lines 444-448.
Unsorted == AddRecords(viewModel, itemsBefore, allResults, 1, None)

\* The lower-cased names of children, in their order.
RECURSIVE LowerNames(_)
LowerNames(children) ==
    IF children = <<>> THEN <<>>
    ELSE Append(LowerNames(SubSeq(children, 1, Len(children) - 1)),
                toLowerCase(children[Len(children)].name))

\* No name is before the name in front of it.
NonDecreasing(names) ==
    \A i \in 1..(Len(names) - 1) : ~StrLess(names[i + 1], names[i])

\* The place of the child with names[i] after a stable sort: after every child
\* whose name is before its name, and after the earlier children of its name.
StablePlace(names, i) ==
    1 + Cardinality({j \in 1..Len(names) : StrLess(names[j], names[i])})
      + Cardinality({j \in 1..(i - 1) : names[j] = names[i]})

DistinctNames(children) ==
    \A i, j \in 1..Len(children) : children[i].name = children[j].name => i = j

\* The record, resource and group positions for which the run adds an item to
\* a group: neither title nor group name is blacklisted, the resource is used.
Placements ==
    {p \in UNION {{i} \X (DOMAIN allResults[i].resources) \X (DOMAIN allResults[i].groups) :
                      i \in DOMAIN allResults} :
        /\ allResults[p[1]].title \notin viewModel.blacklist
        /\ allResults[p[1]].groups[p[3]].display_name \notin viewModel.blacklist
        /\ ~SkipsResource(allResults[p[1]].resources[p[2]])}

\* C14: groups are de-duplicated by exact, case-sensitive name.  Starting from
\* a root whose children have pairwise distinct names, after a run no two
\* children of the root share a name; the children are the ones from before
\* and one group per referenced name that was not there, names that differ in
\* case only giving distinct groups; and every item is in the one group that
\* carries the name its record refers to.
C14_GroupsUniqueByExactName ==
    (populated /\ DistinctNames(itemsBefore)) =>
        /\ DistinctNames(viewModel.items)
        /\ GroupNames(viewModel.items) =
               GroupNames(itemsBefore)
                   \cup {allResults[p[1]].groups[p[3]].display_name : p \in Placements}
        /\ \A p \in Placements :
               \E g \in 1..Len(viewModel.items) :
                   /\ viewModel.items[g].name = allResults[p[1]].groups[p[3]].display_name
                   /\ \E k \in 1..Len(viewModel.items[g].items) :
                          viewModel.items[g].items[k].oid = <<viewModel.epoch, p[1], p[2]>>

\* Two records refer to apple and to Apple, and to Water, which the root had:
\* apple and Apple are two groups with two new items each, Water is reused.
C14_Witness ==
    /\ populated
    /\ itemsBefore = UnsortedRoot
    /\ allResults = <<RecordLower, RecordUpper>>
    /\ {appleLower, AppleUpper, Water} \subseteq GroupNames(viewModel.items)
    /\ Len(viewModel.items) = 4
    /\ \A g \in 1..Len(viewModel.items) :
           viewModel.items[g].name \in {appleLower, AppleUpper}
               => Len(viewModel.items[g].items) = 2

\* The items of a group, in any order.
ItemsOf(group) == {group.items[k] : k \in 1..Len(group.items)}

\* C15: a successful run only appends to the root.  Every child the root had
\* before the run is still a child after it, with every item it held; and when
\* the queries return no record at all the root has the children it had and
\* no other.
C15_RunOnlyAppends ==
    populated =>
        /\ \A b \in 1..Len(itemsBefore) :
               \E g \in 1..Len(viewModel.items) :
                   /\ viewModel.items[g].name = itemsBefore[b].name
                   /\ viewModel.items[g].type = itemsBefore[b].type
                   /\ ItemsOf(itemsBefore[b]) \subseteq ItemsOf(viewModel.items[g])
        /\ allResults = <<>> =>
               /\ Len(viewModel.items) = Len(itemsBefore)
               /\ \A g \in 1..Len(viewModel.items) :
                      \E b \in 1..Len(itemsBefore) :
                          /\ viewModel.items[g].name = itemsBefore[b].name
                          /\ ItemsOf(viewModel.items[g]) = ItemsOf(itemsBefore[b])

\* The root had two groups with items of their own; the run added groups and
\* added an item to a group that was there.
C15_Witness ==
    /\ populated
    /\ itemsBefore = UnsortedRoot
    /\ Len(viewModel.items) > Len(itemsBefore)
    /\ \E g \in 1..Len(viewModel.items) :
           /\ viewModel.items[g].name = Water
           /\ Len(viewModel.items[g].items) > 2

\* A tree without the identities of its item objects: the groups in order, and
\* in each the name, url and layers of its items in order.
Shape(rootItems) ==
    [g \in 1..Len(rootItems) |->
        [name |-> rootItems[g].name,
         items |-> [k \in 1..Len(rootItems[g].items) |->
                       [name |-> rootItems[g].items[k].name,
                        url |-> rootItems[g].items[k].url,
                        layers |-> rootItems[g].items[k].layers]]]]

\* C16: running discovery a second time against the same upstream data leaves
\* the root with the groups, and in each group the items, that the first run
\* left: the second run duplicates no group and no item.
C16_SecondRunDuplicatesNothing ==
    (populated /\ viewModel.epoch >= 2) => Shape(viewModel.items) = Shape(itemsBefore)

\* The records the servers answer the queries with, query after query.
Received ==
    [n \in 1..TotalRecords(net.search) |->
        LET i == CHOOSE q \in DOMAIN net.search :
                     Offset(q) < n /\ n <= Offset(q) + Len(net.search[q].results)
        IN net.search[i].results[n - Offset(i)]]

\* C17: with cross-validation off the threshold is ignored.  No capability
\* fetch is issued, no resource gets a __filtered flag, and the tree is the one
\* built from the records as received, which is the same for every value of
\* the threshold, set or unset.
C17_ThresholdIgnoredWithoutCrossValidation ==
    ~viewModel.filterByWmsGetCapabilities =>
        /\ DOMAIN capabilities = {}
        /\ DOMAIN wmsServers = {}
        /\ \A ref \in AllRefs(allResults) : ResourceAt(ref).filtered = Undef
        /\ populated =>
               LET received == Received
               IN \A minimum \in {None, Some(1), Threshold} :
                      viewModel.items =
                          SortTree(AddRecords([viewModel EXCEPT
                                                  !.minimumMaxScaleDenominator = minimum],
                                              itemsBefore, received, 1, None))

\* A threshold is set and the document of the server puts rain below it, and
\* the tree still holds the item made for rain.
C17_Witness ==
    /\ populated
    /\ ~viewModel.filterByWmsGetCapabilities
    /\ viewModel.minimumMaxScaleDenominator = Threshold
    /\ net.caps[ServerA] = DocBelow
    /\ \E it \in ItemsMadeNow : it.layers = "rain"

\* C18: after TableStructure.fromJson has loaded a table, columnsByType is an
\* object keyed by column type: every column of the structure is in the array
\* under its type, every array holds columns of its type only, and only types
\* that occur among the columns are keys.
C18_ColumnsByTypeHoldsEveryColumn ==
    returned =>
        LET table == structure[1]
            byType == table._columnsByType[1]
        IN /\ defined(table._columnsByType)
           /\ DOMAIN byType = {table.columns[c].type : c \in 1..Len(table.columns)}
           /\ \A c \in 1..Len(table.columns) :
                  /\ table.columns[c].type \in DOMAIN byType
                  /\ \E k \in 1..Len(byType[table.columns[c].type]) :
                         byType[table.columns[c].type][k] = table.columns[c]
           /\ \A type \in DOMAIN byType : \A k \in 1..Len(byType[type]) :
                  byType[type][k].type = type

\* The server and LAYERS value under which the coordinator files the WMS
\* resource j of received record i.
KeyOf(i, j) ==
    LET uri == ResourceUrl(Received[i].resources[j])[1]
    IN <<uri.base, SearchParam(uri, "LAYERS")>>

FiledAsWms(i, j) ==
    /\ toLowerCase(Received[i].resources[j].format) = <<"w", "m", "s">>
    /\ defined(ResourceUrl(Received[i].resources[j]))

\* The __filtered flag of resource j of received record i once every fetch has
\* settled, from the configuration and the answers of the servers alone.  The
\* coordinator flags a WMS resource unless a later one has its server and
\* layer; the flag is cleared when the server's document has a layer of that
\* name that passes the scale test.
ExpectedFlag(i, j) ==
    IF ~viewModel.filterByWmsGetCapabilities \/ ~FiledAsWms(i, j) THEN Undef
    ELSE IF \E r \in AllRefs(Received) :
                /\ r[1] > i \/ (r[1] = i /\ r[2] > j)
                /\ FiledAsWms(r[1], r[2])
                /\ KeyOf(r[1], r[2]) = KeyOf(i, j)
    THEN Undef
    ELSE LET response == net.caps[KeyOf(i, j)[1]]
         IN IF /\ response.kind = "text"
               /\ defined(response.Layer)
               /\ \E n \in AllLayers(response.Layer[1]) :
                      /\ n.Name # Undef
                      /\ n.Name = KeyOf(i, j)[2]
                      /\ \/ ~defined(viewModel.minimumMaxScaleDenominator)
                         \/ ~defined(n.MaxScaleDenominator)
                         \/ n.MaxScaleDenominator[1] >= viewModel.minimumMaxScaleDenominator[1]
            THEN "false"
            ELSE "true"

ExpectedResults ==
    [i \in DOMAIN Received |->
        [Received[i] EXCEPT !.resources =
            [j \in DOMAIN @ |-> [@[j] EXCEPT !.filtered = ExpectedFlag(i, j)]]]]

\* C19: for fixed answers of the servers the final __filtered flags and the
\* final tree do not depend on the order in which the search fetches and the
\* capability fetches settle.  Once no fetch of the run is outstanding, a run
\* whose searches all succeeded has the flags and the tree that the answers
\* and the configuration determine, and a run with a failed search has no
\* flags and the tree it started with.
C19_ResultIndependentOfCompletionOrder ==
    (promises # <<>> /\ NoFetchOutstanding) =>
        IF \A q \in DOMAIN promises : net.search[q].ok
        THEN LET expected == ExpectedResults
             IN /\ populated
                /\ allResults = expected
                /\ viewModel.items =
                       SortTree(AddRecords(viewModel, itemsBefore, expected, 1, None))
        ELSE /\ ~populated
             /\ \A ref \in AllRefs(allResults) : ResourceAt(ref).filtered = Undef
             /\ viewModel.items = itemsBefore

\* The second search settled before the first and the capabilities of server
\* B before those of server A; the run is over.
C19_Witness ==
    /\ populated
    /\ NoFetchOutstanding
    /\ Len(settled) = 4
    /\ settled[1][1] = "search" /\ settled[1][2] = 2
    /\ settled[2][1] = "search" /\ settled[2][2] = 1
    /\ settled[3][1] = "capabilities" /\ settled[3][2] = ServerB
    /\ settled[4][1] = "capabilities" /\ settled[4][2] = ServerA
    /\ viewModel.items # itemsBefore

\* The flag of a grouped resource while and after its server's fetch: true as
\* long as the fetch is outstanding, and false afterwards whenever the server's
\* document has a layer of its name that passes the scale test, whatever nodes
\* come after that layer.
FlagsOfGroupedResources ==
    \A u \in DOMAIN capabilities : \A ref \in ResourcesOf(wmsServers[u]) :
        /\ capabilities[u] = "pending" => ResourceAt(ref).filtered = "true"
        /\ ResourceAt(ref).filtered \in {"true", "false"}
        /\ (/\ capabilities[u] = "settled"
            /\ net.caps[u].kind = "text"
            /\ defined(net.caps[u].Layer)
            /\ \E n \in AllLayers(net.caps[u].Layer[1]) :
                   /\ n.Name # Undef
                   /\ n.Name = LayerNameOf(ResourceAt(ref))
                   /\ \/ ~defined(viewModel.minimumMaxScaleDenominator)
                      \/ ~defined(n.MaxScaleDenominator)
                      \/ n.MaxScaleDenominator[1] >= viewModel.minimumMaxScaleDenominator[1])
               => ResourceAt(ref).filtered = "false"

\* A step of a run changes the flag of a resource only from true to false, and
\* only as the step in which the fetch of the server the resource is grouped
\* under is answered with a document.
FlagChangesOnlyByOwnResponse ==
    \A ref \in AllRefs(allResults) \cap AllRefs(allResults') :
        ResourceAt(ref).filtered # allResults'[ref[1]].resources[ref[2]].filtered =>
            /\ ResourceAt(ref).filtered = "true"
            /\ allResults'[ref[1]].resources[ref[2]].filtered = "false"
            /\ \E u \in DOMAIN capabilities :
                   /\ ref \in ResourcesOf(wmsServers[u])
                   /\ capabilities[u] = "pending"
                   /\ capabilities'[u] = "settled"
                   /\ net.caps[u].kind = "text"

\* C20: with cross-validation, the flag of each grouped resource is true when
\* its server's capability fetch is issued and for as long as the fetch is
\* outstanding; afterwards it changes only from true to false, only by that
\* server's successful response, and is never set back to true by a later node
\* of the walk or by the response of another server.
C20_FlagTrueThenOnlyClearedByOwnServer ==
    /\ [](viewModel.filterByWmsGetCapabilities => FlagsOfGroupedResources)
    /\ [][FlagChangesOnlyByOwnResponse]_vars

\* The document of server A names rain twice, the second time below the
\* threshold; the fetch is answered and the resource filed under rain is clear.
C20_Witness ==
    /\ viewModel.filterByWmsGetCapabilities
    /\ viewModel.minimumMaxScaleDenominator = Threshold
    /\ ServerA \in DOMAIN capabilities
    /\ capabilities[ServerA] = "settled"
    /\ net.caps[ServerA] = DocTwice
    /\ \E ref \in ResourcesOf(wmsServers[ServerA]) : ResourceAt(ref).filtered = "false"

\* The nodes of a capability layer source at nesting depth d (1 for the nodes
\* of the source itself); a single child counts as a list of one.
RECURSIVE LayersAtDepth(_, _)
LayersAtDepth(wmsLayersSource, d) ==
    LET nodes == AsArray(wmsLayersSource)
    IN IF d = 1 THEN {nodes[i] : i \in 1..Len(nodes)}
       ELSE UNION {IF defined(nodes[i].Layer)
                   THEN LayersAtDepth(nodes[i].Layer[1], d - 1) ELSE {} :
                      i \in 1..Len(nodes)}

\* The depth of the deepest node of a capability layer source.
RECURSIVE DeepestLayer(_)
DeepestLayer(wmsLayersSource) ==
    LET nodes == AsArray(wmsLayersSource)
        below == {IF defined(nodes[i].Layer) THEN DeepestLayer(nodes[i].Layer[1]) ELSE 0 :
                     i \in 1..Len(nodes)}
    IN IF below = {} THEN 0 ELSE 1 + CHOOSE d \in below : \A e \in below : e <= d

\* The node passes the scale test of the configuration.
PassesScale(n) ==
    \/ ~defined(viewModel.minimumMaxScaleDenominator)
    \/ ~defined(n.MaxScaleDenominator)
    \/ n.MaxScaleDenominator[1] >= viewModel.minimumMaxScaleDenominator[1]

\* C21: the capability walk reaches every node at every nesting depth, a
\* single child like a list of one.  Once a server's document has been
\* processed, the flag of a resource grouped under the server is false if and
\* only if some node at some depth, whatever its parents are, carries the
\* layer name of the resource and passes the scale test.
C21_WalkReachesEveryDepth ==
    \A u \in DOMAIN capabilities :
        (/\ capabilities[u] = "settled"
         /\ net.caps[u].kind = "text"
         /\ defined(net.caps[u].Layer)) =>
            \A ref \in ResourcesOf(wmsServers[u]) :
                ResourceAt(ref).filtered = "false" <=>
                    \E d \in 1..DeepestLayer(net.caps[u].Layer[1]) :
                        \E n \in LayersAtDepth(net.caps[u].Layer[1], d) :
                            /\ n.Name # Undef
                            /\ n.Name = LayerNameOf(ResourceAt(ref))
                            /\ PassesScale(n)

\* rain is the single child of snow, which fails the scale test and is the
\* single child of an unnamed root; the resource filed under rain is clear.
C21_Witness ==
    /\ ServerA \in DOMAIN capabilities
    /\ capabilities[ServerA] = "settled"
    /\ net.caps[ServerA] = DocNested
    /\ viewModel.minimumMaxScaleDenominator = Threshold
    /\ \E ref \in ResourcesOf(wmsServers[ServerA]) :
           /\ LayerNameOf(ResourceAt(ref)) = "rain"
           /\ ResourceAt(ref).filtered = "false"

\* The layer name the tree builder gives the item of a resource: LAYERS, else
\* layers.
ItemLayerOf(resource) ==
    LET uri == ResourceUrl(resource)[1]
        upper == SearchParam(uri, "LAYERS")
    IN IF upper # Undef /\ upper # "" THEN upper ELSE SearchParam(uri, "layers")

\* C22: the name under which the coordinator registers a WMS resource is the
\* layer name the tree builder gives its item; so with cross-validation a WMS
\* resource whose layer, named by LAYERS or by layers, is listed without a
\* scale limit in the document of its server has its item in the tree.
C22_SameLayerNameInBothPhases ==
    /\ \A u \in DOMAIN wmsServers : \A n \in DOMAIN wmsServers[u] :
           n = ItemLayerOf(ResourceAt(wmsServers[u][n]))
    /\ (CoordinatorDone /\ populated) =>
           \A ref \in AllRefs(allResults) :
               (/\ IsWms(ResourceAt(ref))
                /\ Includable(ref)
                /\ net.caps[EndpointOf(ResourceAt(ref))].kind = "text"
                /\ defined(net.caps[EndpointOf(ResourceAt(ref))].Layer)
                /\ \E n \in AllLayers(net.caps[EndpointOf(ResourceAt(ref))].Layer[1]) :
                       /\ n.Name # Undef
                       /\ n.Name = ItemLayerOf(ResourceAt(ref))
                       /\ ~defined(n.MaxScaleDenominator))
                   => ItemsFor(ref) # {}

\* The resource has the Esri REST format, in any case.
IsEsriRest(resource) ==
    toLowerCase(resource.format) = <<"e", "s", "r", "i", " ", "r", "e", "s", "t">>

\* The stripped endpoints of the WMS resources with a usable URL.
WmsEndpoints ==
    {EndpointOf(ResourceAt(ref)) : ref \in {r \in AllRefs(allResults) : IsWms(ResourceAt(r))}}

\* The number of capability fetches of server u that have settled in this run.
FetchesSettled(u) ==
    Cardinality({k \in 1..Len(settled) : settled[k][1] = "capabilities" /\ settled[k][2] = u})

\* C23: the coordinator issues exactly one capability fetch per distinct
\* stripped endpoint of the WMS resources with a usable URL, and none without
\* cross-validation; it writes the flag of WMS resources only.  An Esri REST
\* resource causes no fetch, keeps its flag unevaluated, and has its item in
\* the tree with and without cross-validation.
C23_OneFetchPerWmsEndpoint ==
    /\ AllSearchResolved =>
           /\ DOMAIN capabilities =
                  IF viewModel.filterByWmsGetCapabilities THEN WmsEndpoints ELSE {}
           /\ \A u \in DOMAIN capabilities :
                  FetchesSettled(u) = IF capabilities[u] = "settled" THEN 1 ELSE 0
    /\ \A ref \in AllRefs(allResults) :
           /\ ~IsWms(ResourceAt(ref)) => ResourceAt(ref).filtered = Undef
           /\ (/\ populated
               /\ IsEsriRest(ResourceAt(ref))
               /\ defined(ResourceUrl(ResourceAt(ref)))
               /\ Includable(ref))
                  => \E it \in ItemsFor(ref) : it.type = "esri-mapServer"

\* Cross-validation is on; the record has an Esri REST and a WMS resource; one
\* fetch, to the WMS server, has settled, and the Esri item is in the tree.
C23_Witness ==
    /\ populated
    /\ viewModel.filterByWmsGetCapabilities
    /\ DOMAIN capabilities = {ServerA}
    /\ FetchesSettled(ServerA) = 1
    /\ \E ref \in AllRefs(allResults) :
           /\ IsEsriRest(ResourceAt(ref))
           /\ ResourceAt(ref).filtered = Undef
           /\ ItemsFor(ref) # {}

\* The resource at ref qualifies for an item: its record is not blacklisted
\* and the resource loop does not skip it.
Qualifies(ref) ==
    /\ allResults[ref[1]].title \notin viewModel.blacklist
    /\ ~SkipsResource(ResourceAt(ref))

\* The positions in the list of groups of the record of ref whose names are
\* not blacklisted.
Memberships(ref) ==
    {g \in DOMAIN allResults[ref[1]].groups :
        allResults[ref[1]].groups[g].display_name \notin viewModel.blacklist}

\* The number of times the children of group hold an item of the current run
\* made for ref.
TimesIn(group, ref) ==
    Cardinality({k \in 1..Len(group.items) :
                    /\ group.items[k].oid = <<viewModel.epoch, ref[1], ref[2]>>
                    /\ group.items[k] \notin TreeItems(itemsBefore)})

\* C24: for each qualifying resource of a record exactly one item is made, and
\* that one item is in the group of each non-blacklisted group membership of
\* the record and nowhere else; no group is created for a blacklisted name; a
\* record without a non-blacklisted membership adds no item and no group.
C24_OneItemSharedByItsGroups ==
    populated =>
        /\ \A ref \in AllRefs(allResults) :
               /\ Cardinality(ItemsFor(ref)) =
                      IF Qualifies(ref) /\ Memberships(ref) # {} THEN 1 ELSE 0
               /\ \A g \in 1..Len(viewModel.items) :
                      TimesIn(viewModel.items[g], ref) =
                          IF Qualifies(ref)
                          THEN Cardinality({m \in Memberships(ref) :
                                   allResults[ref[1]].groups[m].display_name =
                                       viewModel.items[g].name})
                          ELSE 0
        /\ GroupNames(viewModel.items) \ GroupNames(itemsBefore) =
               UNION {{allResults[ref[1]].groups[m].display_name : m \in Memberships(ref)} :
                         ref \in {r \in AllRefs(allResults) : Qualifies(r)}}
                   \ GroupNames(itemsBefore)

\* A record in no group and a record in two groups: the item of a resource of
\* the second is a child of both groups, the first has no item.
C24_Witness ==
    /\ populated
    /\ viewModel.blacklist = {}
    /\ allResults = <<RecordNoGroups, RecordC>>
    /\ ItemsFor(<<1, 1>>) = {}
    /\ \E it \in ItemsFor(<<2, 1>>) :
           \E g, h \in 1..Len(viewModel.items) :
               /\ g # h
               /\ it \in ItemsOf(viewModel.items[g])
               /\ it \in ItemsOf(viewModel.items[h])

\* The columns of table are, in order, the columns of the rows it stores: one
\* per name of the first row (trimmed; _Column and its number for an empty
\* name), holding the values of that column from the rows after the first.
ColumnsMatchRows(table) ==
    LET rows == table._rows[1]
    IN /\ Len(table.columns) = Len(rows[1])
       /\ \A c \in 1..Len(rows[1]) :
              /\ c <= Len(table.columns)
              /\ table.columns[c].name =
                     IF rows[1][c] = <<>>
                     THEN <<"_", "C", "o", "l", "u", "m", "n", Digits[c]>>
                     ELSE trim(rows[1][c])
              /\ Len(table.columns[c].values) = Len(rows) - 1
              /\ \A r \in 1..(Len(rows) - 1) : table.columns[c].values[r] = rows[r + 1][c]

\* C25: after TableStructure.fromJson(json, result) has returned a structure,
\* the columns of the structure correspond one to one, in order, to the names
\* in the first row of the rows it stores, each with the values of its column;
\* also when result is a structure that already holds columns.
C25_ColumnsMatchStoredRows ==
    returned => ColumnsMatchRows(structure[1])

====
